---------------------------- MODULE Spec2Model ----------------------------
(***************************************************************************)
(* Model of orderbook_aggregator.py: the rate_limiter decorator (a         *)
(* single-slot, time-windowed cache guarded by a lock), aggregate_         *)
(* orderbooks, compute_buy_cost, compute_sell_revenue and main.            *)
(*                                                                         *)
(* Time is counted in whole seconds.  Prices, sizes, quantities and totals *)
(* are Python floats (float(price), type=float): the model keeps the       *)
(* round-to-nearest-even of every arithmetic result and shrinks the        *)
(* significand from 53 bits to Prec bits, with the unit in the last place  *)
(* of the smallest binade equal to 1.                                      *)
(***************************************************************************)
EXTENDS Integers, Sequences, FiniteSets, TLC

VARIABLES
    \* rate_limiter closure (lines 10-14) and the threads calling wrapper
    clock,          \* time.time()
    state_t,        \* state["t"]
    state_result,   \* state["result"]
    lock,           \* holder of `lock`, 0 when free
    active,         \* the threads that call the wrapped function
    pc,             \* per thread: position inside wrapper
    now,            \* per thread: the local `now`
    result,         \* per thread: the local `result`
    outcome,        \* per thread: how its last finished call ended
    ret,            \* per thread: the value that call returned
    calls,          \* number of wrapper calls made so far
    upstream,       \* number of invocations of func so far
    upd,            \* history: the last completed cache update
    \* aggregate_orderbooks / compute_buy_cost / compute_sell_revenue
    bid_lists, ask_lists, levels, qty, out,
    \* main
    mpc, venue, coinbase, gemini, book, buy, sell, printed

cacheVars == <<clock, state_t, state_result, lock, active, pc, now, result,
               outcome, ret, calls, upstream, upd>>
pureVars  == <<bid_lists, ask_lists, levels, qty, out>>
mainVars  == <<mpc, venue, coinbase, gemini, book, buy, sell, printed>>
vars      == <<cacheVars, pureVars, mainVars>>

-----------------------------------------------------------------------------
(* Bounds of the model *)

NumThreads == 2     \* threads calling one wrapped function concurrently
MaxClock   == 3     \* time.time() ranges over 0..MaxClock
MaxCalls   == 3     \* wrapper calls per behaviour
Prec       == 2     \* significand bits of the model's floats
MaxPrice   == 2     \* prices range over 1..MaxPrice
MaxSize    == 4     \* sizes range over the floats of 0..MaxSize
MaxQty     == 8     \* quantities range over the floats of 1..MaxQty
MaxLevels  == 3     \* levels per side handed to aggregate / the walk
MaxAggSize == 1     \* sizes handed to aggregate_orderbooks: 0..MaxAggSize
MaxVenues  == 2     \* lists per side handed to aggregate_orderbooks

(* min_interval=2.0, line 8 *)
MinInterval == 2

None == <<>>
Threads == 1..NumThreads

-----------------------------------------------------------------------------
(* Float arithmetic: every result is rounded to Prec significant bits,     *)
(* ties to even.  All operands of the program are >= 0.                    *)

RECURSIVE Pow2(_)
Pow2(n) == IF n = 0 THEN 1 ELSE 2 * Pow2(n - 1)

RECURSIVE Binade(_)
\* the exponent e with x \div 2^e < 2^Prec
Binade(x) == IF x < Pow2(Prec) THEN 0 ELSE 1 + Binade(x \div 2)

Rnd(x) ==
    LET e    == Binade(x)
        ulp  == Pow2(e)
        q    == x \div ulp
        r    == x % ulp
    IN  IF e = 0 THEN x
        ELSE IF 2 * r > ulp \/ (2 * r = ulp /\ q % 2 = 1)
             THEN (q + 1) * ulp
             ELSE q * ulp

IsFloat(x) == Rnd(x) = x

FAdd(a, b) == Rnd(a + b)
FSub(a, b) == Rnd(a - b)
FMul(a, b) == Rnd(a * b)
Min(a, b)  == IF a <= b THEN a ELSE b

-----------------------------------------------------------------------------
(* rate_limiter: the closure state and one wrapper call, step by step.     *)
(* A value returned by func is named by the number of the invocation that  *)
(* produced it; the wrapped functions return a tuple, never None.          *)

NoUpdate == [start |-> -1, at |-> -1, val |-> None]

CacheInit(act) ==
    /\ clock = 0
    /\ state_t = 0
    /\ state_result = None
    /\ lock = 0
    /\ active = act
    /\ pc = [th \in Threads |-> "idle"]
    /\ now = [th \in Threads |-> 0]
    /\ result = [th \in Threads |-> None]
    /\ outcome = [th \in Threads |-> "none"]
    /\ ret = [th \in Threads |-> None]
    /\ calls = 0
    /\ upstream = 0
    /\ upd = NoUpdate

\* time passes
Tick ==
    /\ clock < MaxClock
    /\ clock' = clock + 1
    /\ UNCHANGED <<state_t, state_result, lock, active, pc, now, result,
                   outcome, ret, calls, upstream, upd>>
    /\ UNCHANGED <<pureVars, mainVars>>

\* line 18: now = time.time()
Call(th) ==
    /\ th \in active
    /\ pc[th] = "idle"
    /\ calls < MaxCalls
    /\ calls' = calls + 1
    /\ now' = [now EXCEPT ![th] = clock]
    /\ pc' = [pc EXCEPT ![th] = "lock_r"]
    /\ UNCHANGED <<clock, state_t, state_result, lock, active, result,
                   outcome, ret, upstream, upd>>
    /\ UNCHANGED <<pureVars, mainVars>>

\* line 21: with lock
AcquireRead(th) ==
    /\ pc[th] = "lock_r"
    /\ lock = 0
    /\ lock' = th
    /\ pc' = [pc EXCEPT ![th] = "read"]
    /\ UNCHANGED <<clock, state_t, state_result, active, now, result,
                   outcome, ret, calls, upstream, upd>>
    /\ UNCHANGED <<pureVars, mainVars>>

\* line 22
Fresh(th) == (now[th] - state_t < MinInterval) /\ (state_result # None)

\* mutant of ReadCheck: func is invoked inside the with-block
ReadCheck_HoldsLock(th) ==
    /\ pc[th] = "read"
    /\ IF Fresh(th)
       THEN /\ ret' = [ret EXCEPT ![th] = state_result]
            /\ outcome' = [outcome EXCEPT ![th] = "cached"]
            /\ pc' = [pc EXCEPT ![th] = "idle"]
            /\ now' = [now EXCEPT ![th] = 0]
            /\ lock' = 0
            /\ UNCHANGED upstream
       ELSE /\ pc' = [pc EXCEPT ![th] = "fetching"]
            /\ upstream' = upstream + 1
            /\ UNCHANGED <<ret, outcome, now, lock>>
    /\ UNCHANGED <<clock, state_t, state_result, active, result, calls, upd>>
    /\ UNCHANGED <<pureVars, mainVars>>

\* lines 22-25: return the cached result, or leave the with-block and
\* invoke func
ReadCheck(th) ==
    /\ pc[th] = "read"
    /\ lock' = 0
    /\ IF Fresh(th)
       THEN /\ ret' = [ret EXCEPT ![th] = state_result]
            /\ outcome' = [outcome EXCEPT ![th] = "cached"]
            /\ pc' = [pc EXCEPT ![th] = "idle"]
            /\ now' = [now EXCEPT ![th] = 0]
            /\ UNCHANGED upstream
       ELSE /\ pc' = [pc EXCEPT ![th] = "fetching"]
            /\ upstream' = upstream + 1
            /\ UNCHANGED <<ret, outcome, now>>
    /\ UNCHANGED <<clock, state_t, state_result, active, result, calls, upd>>
    /\ UNCHANGED <<pureVars, mainVars>>

\* line 25: func returns
FetchOk(th) ==
    /\ pc[th] = "fetching"
    /\ result' = [result EXCEPT ![th] = <<upstream>>]
    /\ pc' = [pc EXCEPT ![th] = "lock_w"]
    /\ UNCHANGED <<clock, state_t, state_result, lock, active, now, outcome,
                   ret, calls, upstream, upd>>
    /\ UNCHANGED <<pureVars, mainVars>>

\* mutant of FetchFail: a failure clears the cached result
FetchFail_Clears(th) ==
    /\ pc[th] = "fetching"
    /\ outcome' = [outcome EXCEPT ![th] = "raised"]
    /\ ret' = [ret EXCEPT ![th] = None]
    /\ pc' = [pc EXCEPT ![th] = "idle"]
    /\ now' = [now EXCEPT ![th] = 0]
    /\ state_result' = None
    /\ UNCHANGED <<clock, state_t, lock, active, result, calls, upstream, upd>>
    /\ UNCHANGED <<pureVars, mainVars>>

\* line 25: func raises; the exception leaves wrapper
FetchFail(th) ==
    /\ pc[th] = "fetching"
    /\ outcome' = [outcome EXCEPT ![th] = "raised"]
    /\ ret' = [ret EXCEPT ![th] = None]
    /\ pc' = [pc EXCEPT ![th] = "idle"]
    /\ now' = [now EXCEPT ![th] = 0]
    /\ UNCHANGED <<clock, state_t, state_result, lock, active, result,
                   calls, upstream, upd>>
    /\ UNCHANGED <<pureVars, mainVars>>

\* mutant of AcquireWrite: the update is made without taking the lock
AcquireWrite_NoLock(th) ==
    /\ pc[th] = "lock_w"
    /\ pc' = [pc EXCEPT ![th] = "write_t"]
    /\ UNCHANGED <<clock, state_t, state_result, lock, active, now, result,
                   outcome, ret, calls, upstream, upd>>
    /\ UNCHANGED <<pureVars, mainVars>>

\* line 28: with lock
AcquireWrite(th) ==
    /\ pc[th] = "lock_w"
    /\ lock = 0
    /\ lock' = th
    /\ pc' = [pc EXCEPT ![th] = "write_t"]
    /\ UNCHANGED <<clock, state_t, state_result, active, now, result,
                   outcome, ret, calls, upstream, upd>>
    /\ UNCHANGED <<pureVars, mainVars>>

\* mutant of WriteT: the timestamp is taken when the cache is updated
WriteT_AtUpdate(th) ==
    /\ pc[th] = "write_t"
    /\ state_t' = clock
    /\ pc' = [pc EXCEPT ![th] = "write_r"]
    /\ UNCHANGED <<clock, state_result, lock, active, now, result, outcome,
                   ret, calls, upstream, upd>>
    /\ UNCHANGED <<pureVars, mainVars>>

\* line 29: state["t"] = now
WriteT(th) ==
    /\ pc[th] = "write_t"
    /\ state_t' = now[th]
    /\ pc' = [pc EXCEPT ![th] = "write_r"]
    /\ UNCHANGED <<clock, state_result, lock, active, now, result, outcome,
                   ret, calls, upstream, upd>>
    /\ UNCHANGED <<pureVars, mainVars>>

\* lines 30-31: state["result"] = result, leave the with-block, return result
WriteResult(th) ==
    /\ pc[th] = "write_r"
    /\ state_result' = result[th]
    /\ lock' = 0
    /\ upd' = [start |-> now[th], at |-> clock, val |-> result[th]]
    /\ ret' = [ret EXCEPT ![th] = result[th]]
    /\ outcome' = [outcome EXCEPT ![th] = "fetched"]
    /\ pc' = [pc EXCEPT ![th] = "idle"]
    /\ now' = [now EXCEPT ![th] = 0]
    /\ result' = [result EXCEPT ![th] = None]
    /\ UNCHANGED <<clock, state_t, active, calls, upstream>>
    /\ UNCHANGED <<pureVars, mainVars>>

PureIdle ==
    /\ bid_lists = <<>> /\ ask_lists = <<>> /\ levels = <<>> /\ qty = 0
    /\ out = <<>>

MainIdle ==
    /\ mpc = "off" /\ venue = <<>> /\ coinbase = <<>> /\ gemini = <<>>
    /\ book = <<>> /\ buy = <<>> /\ sell = <<>> /\ printed = <<>>

CacheNext ==
    \/ Tick
    \/ \E th \in Threads : Call(th)
    \/ \E th \in Threads : AcquireRead(th)
    \/ \E th \in Threads : ReadCheck(th)
    \/ \E th \in Threads : FetchOk(th)
    \/ \E th \in Threads : FetchFail(th)
    \/ \E th \in Threads : AcquireWrite(th)
    \/ \E th \in Threads : WriteT(th)
    \/ \E th \in Threads : WriteResult(th)

\* any number of threads calling one wrapped function
Init == CacheInit(Threads) /\ PureIdle /\ MainIdle
Spec == Init /\ [][CacheNext]_vars

\* one thread calling one wrapped function
InitST == CacheInit({1}) /\ PureIdle /\ MainIdle
SpecST == InitST /\ [][CacheNext]_vars

-----------------------------------------------------------------------------
(* Price levels: [price, size] with price > 0 and size >= 0, both floats.  *)

Prices   == {p \in 1..MaxPrice : IsFloat(p)}
Sizes    == {z \in 0..MaxSize : IsFloat(z)}
Qtys     == {q \in 1..MaxQty : IsFloat(q)}
LevelSet == Prices \X Sizes

SeqsUpTo(S, n) == UNION {[1..k -> S] : k \in 0..n}

\* [entry for sublist in lists for entry in sublist], lines 64-65
RECURSIVE Flatten(_)
Flatten(lists) ==
    IF lists = <<>> THEN <<>> ELSE Head(lists) \o Flatten(Tail(lists))

\* sorted(seq, key=...), with keys[i] the key of seq[i]: a stable sort,
\* here by inserting each element after the last one whose key is not
\* greater; run[i] lists the positions of the first i elements in order
sorted(seq, keys) ==
    LET insert(acc, i) ==
            LET k == Cardinality({j \in 1..Len(acc) : keys[acc[j]] <= keys[i]})
            IN  SubSeq(acc, 1, k) \o <<i>> \o SubSeq(acc, k + 1, Len(acc))
        run[i \in 0..Len(seq)] ==
            IF i = 0 THEN <<>> ELSE insert(run[i - 1], i)
    IN  [j \in 1..Len(seq) |-> seq[run[Len(seq)][j]]]

\* mutant of BidKey: bids sorted like asks
BidKey_Ascending(x) == x[1]

\* key=lambda x: -x[0], line 64
BidKey(x) == 0 - x[1]

\* key=lambda x: x[0], line 65
AskKey(x) == x[1]

\* lines 63-66
aggregate_orderbooks(bids_in, asks_in) ==
    LET all_bids == Flatten(bids_in)
        all_asks == Flatten(asks_in)
    IN  [bids |-> sorted(all_bids,
                         [i \in 1..Len(all_bids) |-> BidKey(all_bids[i])]),
         asks |-> sorted(all_asks,
                         [i \in 1..Len(all_asks) |-> AskKey(all_asks[i])])]

\* what a call returns or raises
Return(x) == <<"return", x>>
Raise     == <<"ValueError">>
Returned(r) == r[1] = "return"

\* lines 69-82; run[i] is the state of the loop of lines 73-78 after i
\* levels: total_cost, remaining, and whether the break was taken
compute_buy_cost(asks, q) ==
    LET run[i \in 0..Len(asks)] ==
            IF i = 0 THEN [total |-> 0, remaining |-> q, stop |-> FALSE]
            ELSE LET prev == run[i - 1]
                     price == asks[i][1]
                     size == asks[i][2]
                     available == Min(size, prev.remaining)
                     remaining == FSub(prev.remaining, available)
                 IN  IF prev.stop THEN prev
                     ELSE [total |-> FAdd(prev.total, FMul(available, price)),
                           remaining |-> remaining,
                           stop |-> remaining <= 0]
        end == run[Len(asks)]
    IN  IF end.remaining > 0 THEN Raise ELSE Return(end.total)

\* lines 85-98; run[i] is the state of the loop of lines 89-94 after i
\* levels
compute_sell_revenue(bids, q) ==
    LET run[i \in 0..Len(bids)] ==
            IF i = 0 THEN [total |-> 0, remaining |-> q, stop |-> FALSE]
            ELSE LET prev == run[i - 1]
                     price == bids[i][1]
                     size == bids[i][2]
                     available == Min(size, prev.remaining)
                     remaining == FSub(prev.remaining, available)
                 IN  IF prev.stop THEN prev
                     ELSE [total |-> FAdd(prev.total, FMul(available, price)),
                           remaining |-> remaining,
                           stop |-> remaining <= 0]
        end == run[Len(bids)]
    IN  IF end.remaining > 0 THEN Raise ELSE Return(end.total)

-----------------------------------------------------------------------------
(* aggregate_orderbooks applied to bounded inputs.  Each side is computed   *)
(* from its own parameter alone, so one family of lists feeds both: the    *)
(* asks get the venues of the bids in reverse order.                       *)

\* the ways to cut `flat` into v consecutive lists (empty lists included)
Cuts(flat, v) ==
    {c \in [0..v -> 0..Len(flat)] :
        /\ c[0] = 0 /\ c[v] = Len(flat)
        /\ \A i \in 1..v : c[i - 1] <= c[i]}

Split(flat, v, c) == [i \in 1..v |-> SubSeq(flat, c[i - 1] + 1, c[i])]

Reverse(seq) == [i \in 1..Len(seq) |-> seq[Len(seq) + 1 - i]]

InitAgg ==
    /\ CacheInit({}) /\ MainIdle
    /\ \E flat \in SeqsUpTo(Prices \X (0..MaxAggSize), MaxLevels) :
       \E v \in 0..MaxVenues :
         \E c \in Cuts(flat, v) :
            /\ bid_lists = Split(flat, v, c)
            /\ ask_lists = Reverse(Split(flat, v, c))
    /\ levels = <<>> /\ qty = 0 /\ out = <<>>

Aggregate ==
    /\ out = <<>>
    /\ out' = <<aggregate_orderbooks(bid_lists, ask_lists)>>
    /\ UNCHANGED <<bid_lists, ask_lists, levels, qty>>
    /\ UNCHANGED <<cacheVars, mainVars>>

AggNext == Aggregate

SpecAgg == InitAgg /\ [][AggNext]_vars

-----------------------------------------------------------------------------
(* compute_buy_cost and compute_sell_revenue applied to bounded inputs *)

InitWalk ==
    /\ CacheInit({}) /\ MainIdle
    /\ bid_lists = <<>> /\ ask_lists = <<>>
    /\ levels \in SeqsUpTo(LevelSet, MaxLevels)
    /\ qty \in Qtys
    /\ out = <<>>

Buy ==
    /\ out = <<>>
    /\ out' = <<"buy", compute_buy_cost(levels, qty)>>
    /\ UNCHANGED <<bid_lists, ask_lists, levels, qty>>
    /\ UNCHANGED <<cacheVars, mainVars>>

Sell ==
    /\ out = <<>>
    /\ out' = <<"sell", compute_sell_revenue(levels, qty)>>
    /\ UNCHANGED <<bid_lists, ask_lists, levels, qty>>
    /\ UNCHANGED <<cacheVars, mainVars>>

WalkNext == Buy \/ Sell

SpecWalk == InitWalk /\ [][WalkNext]_vars

-----------------------------------------------------------------------------
(* main, lines 100-152.  Each venue's fetch either raises or returns a     *)
(* snapshot (bids, asks); main runs in a fresh process, so the cache of    *)
(* each wrapped fetch is empty and the call goes to the venue.             *)

\* the levels a venue may quote, and the lists of them it may return
FeedLevels == {<<1, 1>>, <<MaxPrice, MaxSize>>, <<MaxPrice, MaxSize - 1>>}
FeedLists  ==
    {<<>>} \cup {<<a>> : a \in FeedLevels}
           \cup {<<a, b>> : a \in FeedLevels, b \in FeedLevels}

Failed    == <<"raise">>
Snapshot(bids, asks) == <<"ok", bids, asks>>
Responses == {Failed} \cup {Snapshot(b, a) : b \in FeedLists, a \in FeedLists}

InitMain ==
    /\ CacheInit({})
    /\ bid_lists = <<>> /\ ask_lists = <<>> /\ levels = <<>> /\ out = <<>>
    /\ qty \in Qtys
    /\ mpc = "fetch_coinbase"
    /\ venue = [coinbase |-> <<>>, gemini |-> <<>>]
    /\ coinbase = <<>> /\ gemini = <<>>
    /\ book = <<>> /\ buy = <<>> /\ sell = <<>> /\ printed = <<>>

\* mutant of FetchCoinbase: no try/except, a failing fetch ends the run
FetchCoinbase_Aborts ==
    /\ mpc = "fetch_coinbase"
    /\ \E resp \in Responses :
         /\ venue' = [venue EXCEPT !.coinbase = resp]
         /\ IF resp = Failed
            THEN /\ coinbase' = <<>>
                 /\ printed' = Append(printed, "Traceback")
                 /\ mpc' = "done"
            ELSE /\ coinbase' = <<resp[2], resp[3]>>
                 /\ printed' = printed
                 /\ mpc' = "fetch_gemini"
    /\ UNCHANGED <<gemini, book, buy, sell>>
    /\ UNCHANGED <<cacheVars, pureVars>>

\* lines 106-110
FetchCoinbase ==
    /\ mpc = "fetch_coinbase"
    /\ \E resp \in Responses :
         /\ venue' = [venue EXCEPT !.coinbase = resp]
         /\ IF resp = Failed
            THEN /\ coinbase' = << <<>>, <<>> >>
                 /\ printed' = Append(printed, "Failed to fetch from Coinbase")
            ELSE /\ coinbase' = <<resp[2], resp[3]>>
                 /\ printed' = printed
    /\ mpc' = "fetch_gemini"
    /\ UNCHANGED <<gemini, book, buy, sell>>
    /\ UNCHANGED <<cacheVars, pureVars>>

\* lines 120-124
FetchGemini ==
    /\ mpc = "fetch_gemini"
    /\ \E resp \in Responses :
         /\ venue' = [venue EXCEPT !.gemini = resp]
         /\ IF resp = Failed
            THEN /\ gemini' = << <<>>, <<>> >>
                 /\ printed' = Append(printed, "Failed to fetch from Gemini")
            ELSE /\ gemini' = <<resp[2], resp[3]>>
                 /\ printed' = printed
    /\ mpc' = "check"
    /\ UNCHANGED <<coinbase, book, buy, sell>>
    /\ UNCHANGED <<cacheVars, pureVars>>

\* lines 132-137
CheckData ==
    /\ mpc = "check"
    /\ IF coinbase[1] = <<>> /\ gemini[1] = <<>>
       THEN /\ printed' = Append(printed, "No bid data available")
            /\ mpc' = "done"
       ELSE IF coinbase[2] = <<>> /\ gemini[2] = <<>>
       THEN /\ printed' = Append(printed, "No ask data available")
            /\ mpc' = "done"
       ELSE /\ printed' = printed
            /\ mpc' = "aggregate"
    /\ UNCHANGED <<venue, coinbase, gemini, book, buy, sell>>
    /\ UNCHANGED <<cacheVars, pureVars>>

\* line 140
AggregateBooks ==
    /\ mpc = "aggregate"
    /\ book' = aggregate_orderbooks(<<coinbase[1], gemini[1]>>,
                                    <<coinbase[2], gemini[2]>>)
    /\ mpc' = "buy"
    /\ UNCHANGED <<venue, coinbase, gemini, buy, sell, printed>>
    /\ UNCHANGED <<cacheVars, pureVars>>

\* lines 142-146
PriceBuy ==
    /\ mpc = "buy"
    /\ buy' = compute_buy_cost(book.asks, qty)
    /\ printed' = Append(printed, IF Returned(buy') THEN "To buy"
                                                    ELSE "Buy Error")
    /\ mpc' = "sell"
    /\ UNCHANGED <<venue, coinbase, gemini, book, sell>>
    /\ UNCHANGED <<cacheVars, pureVars>>

\* lines 148-152
PriceSell ==
    /\ mpc = "sell"
    /\ sell' = compute_sell_revenue(book.bids, qty)
    /\ printed' = Append(printed, IF Returned(sell') THEN "To sell"
                                                     ELSE "Sell Error")
    /\ mpc' = "done"
    /\ UNCHANGED <<venue, coinbase, gemini, book, buy>>
    /\ UNCHANGED <<cacheVars, pureVars>>

MainNext ==
    \/ FetchCoinbase
    \/ FetchGemini
    \/ CheckData
    \/ AggregateBooks
    \/ PriceBuy
    \/ PriceSell

SpecMain == InitMain /\ [][MainNext]_vars

-----------------------------------------------------------------------------
(* Claims about rate_limiter *)

\* thread th leaves the read-check of line 22
ReadDecides(th) == pc[th] = "read" /\ pc'[th] # "read"

ServedFromCache(th) ==
    /\ pc'[th] = "idle" /\ outcome'[th] = "cached"
    /\ ret'[th] = upd.val /\ upstream' = upstream

InvokesOnce(th) == pc'[th] = "fetching" /\ upstream' = upstream + 1

\* C1 as stated: single-threaded, a call is served from the cache without
\* invoking func iff a prior result exists and less than min_interval has
\* elapsed since the last successful cache update; otherwise func is invoked
\* exactly once.
C1_SinceUpdate ==
    [][ /\ \A th \in active : ReadDecides(th) =>
             IF upd.at # -1 /\ now[th] - upd.at < MinInterval
             THEN ServedFromCache(th) ELSE InvokesOnce(th)
        /\ upstream' # upstream => \E th \in active : ReadDecides(th) ]_vars

\* C1 amended: ... iff a prior result exists and less than min_interval has
\* elapsed since the call that last updated the cache sampled its `now`
\* (the start of that call, not the moment of the update); otherwise func is
\* invoked exactly once.
C1_SinceCallStart ==
    [][ /\ \A th \in active : ReadDecides(th) =>
             IF upd.at # -1 /\ now[th] - upd.start < MinInterval
             THEN ServedFromCache(th) ELSE InvokesOnce(th)
        /\ upstream' # upstream => \E th \in active : ReadDecides(th) ]_vars

\* two calls less than min_interval apart, one upstream invocation in all,
\* while the fetch itself took time
C1_Witness ==
    /\ calls = 2 /\ upstream = 1 /\ outcome[1] = "cached" /\ pc[1] = "idle"
    /\ ret[1] = upd.val /\ upd.at > upd.start

\* C2: a failing fetch propagates to the caller, and no step of the failing
\* call touches the timestamp or the cached result, so a value cached before
\* is neither cleared nor replaced by it; the next call retries the fetch
\* when nothing is cached or the window has expired.
C2_FailureLeavesCache ==
    [][ \A th \in active :
          /\ ( /\ pc[th] \in {"idle", "lock_r", "read", "fetching"}
               /\ pc'[th] # pc[th] )
             => (state_t' = state_t /\ state_result' = state_result)
          /\ (pc[th] = "fetching" /\ pc'[th] = "idle")
             => (outcome'[th] = "raised" /\ ret'[th] = None)
          /\ ( /\ outcome[th] = "raised" /\ ReadDecides(th)
               /\ (state_result = None \/ now[th] - state_t >= MinInterval) )
             => InvokesOnce(th) ]_vars

\* a fetch failed while a value was cached, the value is still there, and
\* the thread's next call, past the window, is fetching again
C2_Witness ==
    \E th \in active :
        /\ outcome[th] = "raised" /\ pc[th] = "fetching"
        /\ state_result # None /\ state_result = upd.val
        /\ state_t = upd.start /\ now[th] - state_t >= MinInterval

InCritical(th) == pc[th] \in {"read", "write_t", "write_r"}

\* C3: the lock is held exactly during the read-check and the write-update,
\* at most one thread is in either, and no thread holds it while executing
\* func.
C3_LockDiscipline ==
    /\ \A th \in Threads : (lock = th) <=> InCritical(th)
    /\ Cardinality({th \in Threads : InCritical(th)}) <= 1
    /\ \A th \in Threads : pc[th] = "fetching" => lock # th

\* two threads that both missed the cache execute func at the same time
C3_Witness ==
    \E a, b \in Threads : a # b /\ pc[a] = "fetching" /\ pc[b] = "fetching"

\* C10 as stated: under any interleaving the stored timestamp never
\* decreases and a cached result is never overwritten by the result of a
\* call that sampled its `now` earlier than the call whose result is cached.
C10_NeverBackwards ==
    [][ /\ state_t' >= state_t
        /\ \A th \in Threads :
             (pc[th] = "write_r" /\ pc'[th] = "idle" /\ upd.at # -1)
                => now[th] >= upd.start ]_vars

\* C10 amended: the timestamp and the result in the cache always come from
\* one and the same call, and a call that sampled its `now` no earlier than
\* the moment of the previous cache update never lowers the timestamp nor
\* overwrites the result of a call that started later; calls that overlap
\* write in the order they finish.
C10_NoOverlapNeverBackwards ==
    /\ [][ \A th \in Threads :
             /\ (pc[th] = "write_t" /\ pc'[th] = "write_r" /\ now[th] >= upd.at)
                   => state_t' >= state_t
             /\ (pc[th] = "write_r" /\ pc'[th] = "idle" /\ now[th] >= upd.at)
                   => now[th] >= upd.start ]_vars
    /\ []( (upd.at # -1 /\ \A th \in Threads : pc[th] # "write_r")
              => (state_t = upd.start /\ state_result = upd.val) )

\* a second call, started after the first one's update, is about to store
\* its result over it
C10_Witness ==
    \E th \in Threads :
        /\ pc[th] = "write_r" /\ upd.at # -1
        /\ now[th] >= upd.at /\ state_t > upd.start

-----------------------------------------------------------------------------
(* Claims about aggregate_orderbooks *)

NonIncreasing(seq) ==
    \A i, j \in 1..Len(seq) : i < j => seq[i][1] >= seq[j][1]

NonDecreasing(seq) ==
    \A i, j \in 1..Len(seq) : i < j => seq[i][1] <= seq[j][1]

\* res holds exactly the entries of src, one for one, and entries of equal
\* price are in the order they have in src
StableRearrangement(res, src) ==
    /\ Len(res) = Len(src)
    /\ \E f \in [1..Len(src) -> 1..Len(src)] :
         /\ \A i, j \in 1..Len(src) : i # j => f[i] # f[j]
         /\ \A i \in 1..Len(src) : res[i] = src[f[i]]
         /\ \A i, j \in 1..Len(src) :
              (i < j /\ res[i][1] = res[j][1]) => f[i] < f[j]

\* C4: the bids returned are the concatenation of the bid lists in
\* non-increasing price order, the asks the concatenation of the ask lists
\* in non-decreasing price order; nothing is dropped, duplicated or merged,
\* and entries of equal price keep their concatenation order.
C4_AggregateIsStableSort ==
    out # <<>> =>
        /\ NonIncreasing(out[1].bids)
        /\ NonDecreasing(out[1].asks)
        /\ StableRearrangement(out[1].bids, Flatten(bid_lists))
        /\ StableRearrangement(out[1].asks, Flatten(ask_lists))

\* two venues, the order of the levels changed by the sort, and two levels
\* of one price and different sizes, one from each venue, both kept
C4_Witness ==
    /\ out # <<>>
    /\ Len(bid_lists) = 2 /\ bid_lists[1] # <<>> /\ bid_lists[2] # <<>>
    /\ out[1].bids # Flatten(bid_lists)
    /\ out[1].asks # Flatten(ask_lists)
    /\ bid_lists[1][1][1] = bid_lists[2][1][1]
    /\ bid_lists[1][1][2] # bid_lists[2][1][2]

-----------------------------------------------------------------------------
(* Claims about compute_buy_cost and compute_sell_revenue *)

RECURSIVE SumSizes(_)
\* the sum of the sizes, exact
SumSizes(lv) == IF lv = <<>> THEN 0 ELSE Head(lv)[2] + SumSizes(Tail(lv))

RECURSIVE FloatSumSizes(_, _)
\* the sum of the sizes as sum() computes it, rounding after each addition
FloatSumSizes(lv, acc) ==
    IF lv = <<>> THEN acc ELSE FloatSumSizes(Tail(lv), FAdd(acc, Head(lv)[2]))

\* the walk called in this state, with what it returned or raised
Walked == out # <<>> /\ out[1] \in {"buy", "sell"}

\* C5: the walk fails iff the sum of the sizes of all levels is strictly
\* less than qty.  The sum is taken exactly or as floats add it up,
\* whichever agrees with the outcome.
C5_FailsIffSumBelowQty ==
    Walked =>
        \/ (out[2] = Raise) <=> (SumSizes(levels) < qty)
        \/ (out[2] = Raise) <=> (FloatSumSizes(levels, 0) < qty)

\* C6: for q1 <= qty with qty fillable (sum of sizes >= qty), both walks
\* return a total and the total for qty is at least the total for q1.
C6_MonotonicInQty ==
    (Walked /\ SumSizes(levels) >= qty /\ FloatSumSizes(levels, 0) >= qty) =>
        /\ Returned(out[2])
        /\ \A q1 \in Qtys : q1 <= qty =>
             LET r1 == IF out[1] = "buy" THEN compute_buy_cost(levels, q1)
                       ELSE compute_sell_revenue(levels, q1)
             IN  Returned(r1) /\ out[2][2] >= r1[2]

\* the part of C6 that the code does satisfy: whenever the walk returns a
\* total for qty it returns one for every smaller quantity, and not a
\* larger one
WalkMonotoneWhenReturned ==
    (Walked /\ Returned(out[2])) =>
        \A q1 \in Qtys : q1 <= qty =>
             LET r1 == IF out[1] = "buy" THEN compute_buy_cost(levels, q1)
                       ELSE compute_sell_revenue(levels, q1)
             IN  Returned(r1) /\ out[2][2] >= r1[2]

RECURSIVE Taken(_, _)
\* the reference walk of the spec: the quantities taken level by level,
\* taken = min(size, remaining), remaining -= taken, stopping as soon as
\* remaining <= 0
Taken(lv, remaining) ==
    IF lv = <<>> \/ remaining <= 0 THEN <<>>
    ELSE LET taken == Min(Head(lv)[2], remaining)
         IN  <<taken>> \o Taken(Tail(lv), FSub(remaining, taken))

RECURSIVE RefTotal(_, _, _)
\* total += taken * price over the levels the reference walk visits
RefTotal(lv, taken, total) ==
    IF taken = <<>> THEN total
    ELSE RefTotal(Tail(lv), Tail(taken),
                  FAdd(total, FMul(Head(taken), Head(lv)[1])))

RECURSIVE SumSeq(_)
SumSeq(seq) == IF seq = <<>> THEN 0 ELSE Head(seq) + SumSeq(Tail(seq))

RECURSIVE FloatSumSeq(_, _)
FloatSumSeq(seq, acc) ==
    IF seq = <<>> THEN acc ELSE FloatSumSeq(Tail(seq), FAdd(acc, Head(seq)))

\* C9: both functions give the same outcome; on success the total is that
\* of the reference walk, whose quantities taken sum to exactly qty (summed
\* exactly or as floats, whichever agrees).
C9_SameWalkTakesExactlyQty ==
    Walked =>
        /\ compute_buy_cost(levels, qty) = compute_sell_revenue(levels, qty)
        /\ Returned(out[2]) =>
             /\ out[2][2] = RefTotal(levels, Taken(levels, qty), 0)
             /\ \/ SumSeq(Taken(levels, qty)) = qty
                \/ FloatSumSeq(Taken(levels, qty), 0) = qty

\* the part of C9 that the code does satisfy: one walk, the reference one
WalksAgreeWithReference ==
    Walked =>
        /\ compute_buy_cost(levels, qty) = compute_sell_revenue(levels, qty)
        /\ Returned(out[2]) =>
              out[2][2] = RefTotal(levels, Taken(levels, qty), 0)
        /\ ~Returned(out[2]) =>
              FSub(qty, 0) > 0 /\ Len(Taken(levels, qty)) = Len(levels)

-----------------------------------------------------------------------------
(* Claims about main *)

\* venue `down` failed while venue `up` returned bids and asks
OnlyFailed(down, up) ==
    /\ venue[down] = Failed
    /\ venue[up] # Failed /\ venue[up] # <<>>
    /\ venue[up][2] # <<>> /\ venue[up][3] # <<>>

\* C7: when exactly one venue's fetch fails and the other returns non-empty
\* bids and asks, the failed venue contributes empty sequences, the run goes
\* on, the aggregated book is the aggregate of the surviving snapshot
\* alone, and both the buy and the sell pricing are attempted on it.
C7_VenueFailureIsolated ==
    /\ mpc = "done" => (venue.coinbase # <<>> /\ venue.gemini # <<>>)
    /\ \A down, up \in {"coinbase", "gemini"} :
        (mpc = "done" /\ OnlyFailed(down, up)) =>
            /\ (IF down = "coinbase" THEN coinbase ELSE gemini)
                  = << <<>>, <<>> >>
            /\ book # <<>>
            /\ book = aggregate_orderbooks(<<venue[up][2]>>, <<venue[up][3]>>)
            /\ buy = compute_buy_cost(book.asks, qty)
            /\ sell = compute_sell_revenue(book.bids, qty)
            /\ Len(printed) = 3

\* Coinbase failed, Gemini returned two levels a side, out of price order,
\* and both sides were priced
C7_Witness ==
    /\ mpc = "done" /\ OnlyFailed("coinbase", "gemini")
    /\ Len(venue.gemini[2]) = 2 /\ book.bids # venue.gemini[2]
    /\ Returned(buy) /\ Returned(sell)

\* a side is fillable: the sizes of its levels sum to qty or more, summed
\* exactly and as floats add them up
Fillable(side) ==
    SumSizes(side) >= qty /\ FloatSumSizes(side, 0) >= qty

\* C8: in every run that prices the combined book, each side that is
\* fillable reports its total, whatever the outcome of the other side.
C8_FillableSideReportsTotal ==
    (mpc = "done" /\ book # <<>>) =>
        /\ Fillable(book.asks) => Returned(buy)
        /\ Fillable(book.bids) => Returned(sell)

\* the part of C8 that the code does satisfy: once the book is combined
\* both sides are priced, each with the outcome of its own walk
BothSidesPriced ==
    (mpc = "done" /\ book # <<>>) =>
        /\ buy = compute_buy_cost(book.asks, qty)
        /\ sell = compute_sell_revenue(book.bids, qty)
        /\ \E i \in 1..Len(printed) : printed[i] \in {"To buy", "Buy Error"}
        /\ \E i \in 1..Len(printed) : printed[i] \in {"To sell", "Sell Error"}

=============================================================================
